---- MODULE Spec2Model ----
(***************************************************************************)
(* Weather-by-CEP service (src/main.go, second half of the file: the      *)
(* current version of the handlers, lines 195-389).                        *)
(*                                                                         *)
(* Strings are sequences of one-character strings, so that TrimPrefix,     *)
(* TrimSpace, ReplaceAll and the regular expression ^\d{8}$ are computed   *)
(* character by character, as the Go code computes them.                   *)
(*                                                                         *)
(* Temperatures are float64 in the code.  They are modelled as integers    *)
(* counting hundredths of a degree (2500 is 25.00 degrees); Celsius       *)
(* inputs are multiples of 0.05 degree, for which celsius*1.8 is a whole   *)
(* number of hundredths, so the arithmetic of the model is exact.          *)
(***************************************************************************)
EXTENDS Integers, Sequences, FiniteSets, TLC

VARIABLES
    apiKey,      \* os.Getenv("WEATHER_API_KEY"): "" when unset
    pc,          \* pc[r]: where request r's handler is
    urlPath,     \* urlPath[r]: r.URL.Path of request r
    cep,         \* cep[r]: weatherHandler's local cep
    location,    \* location[r]: weatherHandler's local location
    addrAns,     \* addrAns[r]: what http.Get returned to getLocationByCEP
    weatherAns,  \* weatherAns[r]: what http.Get returned to getTemperature
    resp,        \* resp[r]: what the ResponseWriter of request r has sent
    trace,       \* trace[r]: the observable steps of request r, in order
    cepIn,       \* input of isValidCEP (specification SpecCEP)
    cepChecked,  \* whether isValidCEP was applied to cepIn
    cepResult,   \* its result
    celsius,     \* input of the converters (specification SpecConv)
    convDone,    \* whether the converters were applied
    tempF,       \* celsiusToFahrenheit(celsius)
    tempK        \* celsiusToKelvin(celsius)

vars == <<apiKey, pc, urlPath, cep, location, addrAns, weatherAns, resp, trace,
          cepIn, cepChecked, cepResult, celsius, convDone, tempF, tempK>>

handlerVars == <<apiKey, pc, urlPath, cep, location, addrAns, weatherAns, resp, trace>>
cepVars == <<cepIn, cepChecked, cepResult>>
convVars == <<celsius, convDone, tempF, tempK>>

----------------------------------------------------------------------------
(* Bounds *)

\* Number of requests that can be in flight together.
MaxReqs == 2

\* Longest string given to isValidCEP in SpecCEP.
MaxCepLen == 10

\* Celsius inputs of SpecConv range over -MaxTempSteps..MaxTempSteps steps of
\* 0.05 degree (5463 steps = 273.15 degrees).
MaxTempSteps == 5463

Reqs == 1..MaxReqs

----------------------------------------------------------------------------
(* Strings *)

Digits == {"0", "1", "2", "3", "4", "5", "6", "7", "8", "9"}

\* unicode.IsSpace, restricted to the characters the model uses.
Spaces == {" ", "\t", "\n"}

\* The number of digits the regular expression ^\d{8}$ asks for.
CepDigits == 8

HasPrefix(s, p) == Len(s) >= Len(p) /\ SubSeq(s, 1, Len(p)) = p

TrimPrefix(s, p) == IF HasPrefix(s, p) THEN SubSeq(s, Len(p) + 1, Len(s)) ELSE s

RECURSIVE TrimLeftSpace(_)
TrimLeftSpace(s) ==
    IF s # <<>> /\ Head(s) \in Spaces THEN TrimLeftSpace(Tail(s)) ELSE s

RECURSIVE TrimRightSpace(_)
TrimRightSpace(s) ==
    IF s # <<>> /\ s[Len(s)] \in Spaces
    THEN TrimRightSpace(SubSeq(s, 1, Len(s) - 1))
    ELSE s

TrimSpace(s) == TrimRightSpace(TrimLeftSpace(s))

\* strings.ReplaceAll(s, old, ""), for a one-character old.
ReplaceAll(s, old) == SelectSeq(s, LAMBDA c : c # old)

\* strings.Replace(s, old, "", 1): only the first occurrence is removed.
RECURSIVE ReplaceFirst(_, _)
ReplaceFirst(s, old) ==
    IF s = <<>> THEN <<>>
    ELSE IF Head(s) = old THEN Tail(s)
    ELSE <<Head(s)>> \o ReplaceFirst(Tail(s), old)

\* regexp.MatchString(`^\d{8}$`, s)
MatchEightDigits(s) == Len(s) = CepDigits /\ \A i \in 1..Len(s) : s[i] \in Digits

\* A validator that checks the length but not that the characters are digits.
isValidCEP_LengthOnly(s) == Len(ReplaceAll(s, "-")) = CepDigits

\* A validator that accepts the hyphen at its conventional place only
\* (NNNNN-NNN).
isValidCEP_Conventional(s) ==
    \/ MatchEightDigits(s)
    \/ /\ Len(s) = CepDigits + 1
       /\ s[6] = "-"
       /\ MatchEightDigits(SubSeq(s, 1, 5) \o SubSeq(s, 7, Len(s)))

\* A validator that removes one hyphen only.
isValidCEP_StripOne(s) == MatchEightDigits(ReplaceFirst(s, "-"))

isValidCEP(s) == MatchEightDigits(ReplaceAll(s, "-"))

----------------------------------------------------------------------------
(* Temperatures, in hundredths of a degree *)

\* celsius + 273, the formula of the first version of the file.
celsiusToKelvin_273(c) == c + 27300

\* Kelvin derived from the Fahrenheit value instead of the Celsius value,
\* with the offset of the Fahrenheit scale left in.
celsiusToKelvin_FromF(c) == ((c * 18) \div 10 + 3200) + 27315

celsiusToFahrenheit_NoOffset(c) == (c * 18) \div 10

celsiusToFahrenheit(c) == (c * 18) \div 10 + 3200

celsiusToKelvin(c) == c + 27315

----------------------------------------------------------------------------
(* isValidCEP on every string over Chars up to MaxCepLen (SpecCEP) *)

Chars == {"0", "-", "a"}

InitCEP ==
    /\ cepIn = <<>>
    /\ cepChecked = FALSE
    /\ cepResult = FALSE

TypeChar(c) ==
    /\ ~cepChecked
    /\ Len(cepIn) < MaxCepLen
    /\ cepIn' = Append(cepIn, c)
    /\ UNCHANGED <<cepChecked, cepResult>>

Validate ==
    /\ ~cepChecked
    /\ cepChecked' = TRUE
    /\ cepResult' = isValidCEP(cepIn)
    /\ UNCHANGED cepIn

----------------------------------------------------------------------------
(* The converters on a range of Celsius values (SpecConv) *)

CelsiusInputs == {5 * k : k \in (-MaxTempSteps)..MaxTempSteps}

InitConv ==
    /\ celsius = 0
    /\ convDone = FALSE
    /\ tempF = 0
    /\ tempK = 0


Convert ==
    /\ ~convDone
    /\ convDone' = TRUE
    /\ tempF' = celsiusToFahrenheit(celsius)
    /\ tempK' = celsiusToKelvin(celsius)
    /\ UNCHANGED celsius

----------------------------------------------------------------------------
(* Requests: paths, upstream answers *)

Nil == "<nil>"

WeatherPrefix == <<"/", "w", "e", "a", "t", "h", "e", "r", "/">>

\* Path segments after /weather/ that the requests of the model carry.  The
\* hyphenated one has its hyphen away from the usual place and a leading
\* space, so that TrimSpace and ReplaceAll both have something to do.
SegValid == <<"0", "1", "3", "1", "0", "1", "0", "0">>
SegOddHyphen == <<" ", "0", "1", "-", "3", "1", "0", "1", "0", "0">>
SegLetter == <<"0", "1", "3", "1", "0", "1", "0", "a">>
SegShort == <<"0", "1", "3", "1", "0", "1", "0">>
SegLong == <<"0", "1", "3", "1", "0", "1", "0", "0", "0">>
SegEmpty == <<>>
SegInnerSpace == <<"0", "1", "3", "1", "0", " ", "1", "0", "0">>

Segments == {SegValid, SegOddHyphen, SegLetter, SegShort, SegLong, SegEmpty,
             SegInnerSpace}

WeatherPaths == {WeatherPrefix \o s : s \in Segments}

HealthPaths == {<<"/">>, <<"/", "h", "e", "a", "l", "t", "h">>}

Keys == {"", "secret"}

CitySP == <<"S", "ã", "o", " ", "P", "a", "u", "l", "o">>
StateSP == <<"S", "P">>

NoBody == [kind |-> "none"]

\* Bodies of the address service.  "garbage" is not JSON; "mistyped" is JSON
\* that does not fit ViaCEPResponse (localidade is a number); "object" is a
\* JSON object that fits, with erro absent, a boolean or a string.
AddrObject(erro, city, uf) ==
    [kind |-> "object", erro |-> erro, localidade |-> city, uf |-> uf]

AddrBodyGarbage == [kind |-> "garbage", erro |-> "absent", localidade |-> <<>>, uf |-> <<>>]
AddrBodyMistyped == [kind |-> "mistyped", erro |-> "absent", localidade |-> <<>>, uf |-> <<>>]
AddrBodyFound == AddrObject("absent", CitySP, StateSP)
AddrBodyErroBool == AddrObject("bool", <<>>, <<>>)
AddrBodyErroString == AddrObject("string", <<>>, <<>>)
AddrBodyNoCity == AddrObject("absent", <<>>, StateSP)
\* "erro": false next to a city: the field is present, and not nil once decoded.
AddrBodyErroFalse == AddrObject("boolFalse", CitySP, StateSP)

HttpError(msg) == [kind |-> "error", err |-> msg, status |-> 0, body |-> NoBody]
HttpResponse(status, body) == [kind |-> "response", err |-> Nil, status |-> status, body |-> body]

AddrAnswers ==
    {HttpError("Get viacep: dial tcp: connection refused")}
    \cup {HttpResponse(200, b) : b \in {AddrBodyGarbage, AddrBodyMistyped, AddrBodyFound,
                                        AddrBodyErroBool, AddrBodyErroString, AddrBodyNoCity,
                                        AddrBodyErroFalse}}
    \cup {HttpResponse(400, AddrBodyGarbage), HttpResponse(500, AddrBodyFound)}

\* Celsius readings of the weather service, in hundredths of a degree.
Temps == {-4000, 0, 2870}

\* Bodies of the weather service.  "mistyped" is JSON that does not fit
\* WeatherAPIResponse (current.temp_c is a string) but is a JSON object.
WeatherBodyGarbage == [kind |-> "garbage", hasTemp |-> FALSE, temp_c |-> 0]
WeatherBodyMistyped == [kind |-> "mistyped", hasTemp |-> FALSE, temp_c |-> 0]
WeatherBodyNoTemp == [kind |-> "object", hasTemp |-> FALSE, temp_c |-> 0]
WeatherBodyTemp(t) == [kind |-> "object", hasTemp |-> TRUE, temp_c |-> t]

WeatherAnswers ==
    {HttpError("Get weatherapi: dial tcp: i/o timeout")}
    \cup {HttpResponse(200, b) : b \in {WeatherBodyGarbage, WeatherBodyMistyped, WeatherBodyNoTemp}}
    \cup {HttpResponse(200, WeatherBodyTemp(t)) : t \in Temps}
    \cup {HttpResponse(401, WeatherBodyNoTemp), HttpResponse(500, WeatherBodyGarbage)}

----------------------------------------------------------------------------
(* http.ResponseWriter and the trace of a request *)

StatusOK == 200
StatusNotFound == 404
StatusUnprocessableEntity == 422
StatusInternalServerError == 500

JsonType == "application/json"

\* net/http sniffs the type of a body written with no Content-Type header;
\* JSON text is sniffed as plain text.
DetectContentType(v) == "text/plain; charset=utf-8"

Ev(kind, a, b) == [ev |-> kind, a |-> a, b |-> b]

\* A request's context: w is the ResponseWriter (header is the handler's
\* Content-Type header, "" when unset; contentType is the one sent), t the
\* trace of what the handler did, in order.
NewCtx ==
    [w |-> [header |-> "", wroteHeader |-> FALSE, status |-> 0,
            contentType |-> "", body |-> <<>>],
     t |-> <<>>]

\* w.Header().Set("Content-Type", v)
SetContentType(c, v) ==
    [c EXCEPT !.w.header = v, !.t = Append(@, Ev("setHeader", "Content-Type", v))]

\* w.WriteHeader(code): the status line and the headers set so far are sent;
\* a second call changes nothing.
WriteHeader(c, code) ==
    [c EXCEPT !.w = IF @.wroteHeader THEN @
                    ELSE [@ EXCEPT !.wroteHeader = TRUE, !.status = code,
                                   !.contentType = c.w.header],
              !.t = Append(@, Ev("writeHeader", code, c.w.header))]

\* json.NewEncoder(w).Encode(v): one Write of the encoded value.
Encode(c, v) ==
    LET c1 == IF c.w.wroteHeader THEN c ELSE WriteHeader(c, StatusOK)
    IN  [c1 EXCEPT !.w.contentType = IF @ = "" THEN DetectContentType(v) ELSE @,
                   !.w.body = Append(@, v),
                   !.t = Append(@, Ev("write", v, ""))]

\* log.Printf(format, arg)
Log(c, format, arg) == [c EXCEPT !.t = Append(@, Ev("log", format, arg))]

\* A client that issues every call a second time (a retry that does not look
\* at the first outcome).
HttpGet_Twice(c, svc, arg) ==
    [c EXCEPT !.t = Append(Append(@, Ev("httpGet", svc, arg)), Ev("httpGet", svc, arg))]

\* http.Get(url): svc names the host, arg the part of the URL that varies.
HttpGet(c, svc, arg) == [c EXCEPT !.t = Append(@, Ev("httpGet", svc, arg))]

ErrorResponse(msg) == [message |-> msg]

WeatherResponse(c, f, k) == [temp_C |-> c, temp_F |-> f, temp_K |-> k]

----------------------------------------------------------------------------
(* healthHandler *)

\* A health check that reports the service down when the credential is unset.
healthHandler_NeedsKey(c) ==
    IF apiKey = ""
    THEN Encode(WriteHeader(c, StatusInternalServerError), [status |-> "down"])
    ELSE Encode(WriteHeader(c, StatusOK), [status |-> "ok"])

healthHandler(c) == Encode(WriteHeader(c, StatusOK), [status |-> "ok"])

----------------------------------------------------------------------------
(* getLocationByCEP *)

CepNotFound == "CEP not found"

\* The CEP put in the URL as it came, hyphens included.
LookupKey_Raw(s) == s

\* The key put in the URL of the address service.
LookupKey(s) == ReplaceAll(s, "-")

\* The state before the city.
FormatLocation_Swapped(city, uf) == uf \o <<",">> \o city

\* fmt.Sprintf("%s,%s", viaCEP.Localidade, viaCEP.UF)
FormatLocation(city, uf) == city \o <<",">> \o uf

\* json.NewDecoder(resp.Body).Decode(&viaCEP)
AddrDecodeError(body) ==
    CASE body.kind = "garbage" -> "invalid character '<' looking for beginning of value"
      [] body.kind = "mistyped" ->
            "json: cannot unmarshal number into Go struct field ViaCEPResponse.localidade of type string"
      [] OTHER -> Nil

\* A status other than 200 reported as an error of its own.
getLocationByCEP_StatusIsError(ans) ==
    IF ans.kind = "error" THEN [location |-> <<>>, err |-> ans.err]
    ELSE IF ans.status # StatusOK THEN [location |-> <<>>, err |-> "viacep: unexpected status"]
    ELSE IF AddrDecodeError(ans.body) # Nil
         THEN [location |-> <<>>, err |-> AddrDecodeError(ans.body)]
    ELSE IF ans.body.erro # "absent" \/ ans.body.localidade = <<>>
         THEN [location |-> <<>>, err |-> CepNotFound]
    ELSE [location |-> FormatLocation(ans.body.localidade, ans.body.uf), err |-> Nil]

\* The first version of the function (main.go:119-146): erro is decoded as a
\* bool, so a string fails to decode, and an empty city is not looked at.
getLocationByCEP_ErroBool(ans) ==
    IF ans.kind = "error" THEN [location |-> <<>>, err |-> ans.err]
    ELSE IF ans.status # StatusOK THEN [location |-> <<>>, err |-> CepNotFound]
    ELSE IF AddrDecodeError(ans.body) # Nil
         THEN [location |-> <<>>, err |-> AddrDecodeError(ans.body)]
    ELSE IF ans.body.erro = "string"
         THEN [location |-> <<>>,
               err |-> "json: cannot unmarshal string into Go struct field ViaCEPResponse.erro of type bool"]
    ELSE IF ans.body.erro = "bool" THEN [location |-> <<>>, err |-> CepNotFound]
    ELSE [location |-> FormatLocation(ans.body.localidade, ans.body.uf), err |-> Nil]

\* A decode error reported as "CEP not found".
getLocationByCEP_DecodeIsNotFound(ans) ==
    IF ans.kind = "error" THEN [location |-> <<>>, err |-> ans.err]
    ELSE IF ans.status # StatusOK THEN [location |-> <<>>, err |-> CepNotFound]
    ELSE IF AddrDecodeError(ans.body) # Nil THEN [location |-> <<>>, err |-> CepNotFound]
    ELSE IF ans.body.erro # "absent" \/ ans.body.localidade = <<>>
         THEN [location |-> <<>>, err |-> CepNotFound]
    ELSE [location |-> FormatLocation(ans.body.localidade, ans.body.uf), err |-> Nil]

\* "not found" reported with another message than the one the handler tests.
getLocationByCEP_OtherMessage(ans) ==
    IF ans.kind = "error" THEN [location |-> <<>>, err |-> ans.err]
    ELSE IF ans.status # StatusOK THEN [location |-> <<>>, err |-> "cep not found"]
    ELSE IF AddrDecodeError(ans.body) # Nil
         THEN [location |-> <<>>, err |-> AddrDecodeError(ans.body)]
    ELSE IF ans.body.erro # "absent" \/ ans.body.localidade = <<>>
         THEN [location |-> <<>>, err |-> "cep not found"]
    ELSE [location |-> FormatLocation(ans.body.localidade, ans.body.uf), err |-> Nil]

\* What getLocationByCEP returns once http.Get has returned ans.
getLocationByCEP(ans) ==
    IF ans.kind = "error" THEN [location |-> <<>>, err |-> ans.err]
    ELSE IF ans.status # StatusOK THEN [location |-> <<>>, err |-> CepNotFound]
    ELSE IF AddrDecodeError(ans.body) # Nil
         THEN [location |-> <<>>, err |-> AddrDecodeError(ans.body)]
    ELSE IF ans.body.erro # "absent" \/ ans.body.localidade = <<>>
         THEN [location |-> <<>>, err |-> CepNotFound]
    ELSE [location |-> FormatLocation(ans.body.localidade, ans.body.uf), err |-> Nil]

----------------------------------------------------------------------------
(* getTemperature *)

\* url.QueryEscape, on the characters the locations of the model hold: a
\* space becomes +, other reserved or non-ASCII characters become the
\* percent-encoding of their UTF-8 bytes.
EscapeChar(ch) ==
    CASE ch = " " -> <<"+">>
      [] ch = "," -> <<"%", "2", "C">>
      [] ch = "ã" -> <<"%", "C", "3", "%", "A", "3">>
      [] OTHER -> <<ch>>

RECURSIVE QueryEscape(_)
QueryEscape(s) == IF s = <<>> THEN <<>> ELSE EscapeChar(Head(s)) \o QueryEscape(Tail(s))

\* json.NewDecoder(resp.Body).Decode(&weatherAPI)
WeatherDecodeError(body) ==
    CASE body.kind = "garbage" -> "invalid character '<' looking for beginning of value"
      [] body.kind = "mistyped" ->
            "json: cannot unmarshal string into Go struct field .current.temp_c of type float64"
      [] OTHER -> Nil

\* json.NewDecoder(resp.Body).Decode(&errorResp), errorResp a map: any JSON
\* object decodes.
DecodesAsMap(body) == body.kind \in {"object", "mistyped"}

\* The first version of the check (main.go:149-154): a warning, and the call
\* is made all the same.
CredentialMissing_Never(key) == FALSE

\* apiKey == "" (main.go:344)
CredentialMissing(key) == key = ""

\* A getTemperature that takes a reading of 0 for a missing one.
getTemperature_ZeroIsMissing(c, loc, ans) ==
    IF ans.kind = "error"
    THEN [ctx |-> Log(c, "ERROR: Failed to fetch weather data: %v", ans.err),
          temp |-> 0, err |-> "failed to connect to weather API: " \o ans.err]
    ELSE IF ans.status # StatusOK
    THEN [ctx |-> Log(c, "ERROR: Weather API returned status %d for location: %s",
                      <<ans.status, loc>>),
          temp |-> 0, err |-> "weather API error: status"]
    ELSE IF WeatherDecodeError(ans.body) # Nil
    THEN [ctx |-> Log(c, "ERROR: Failed to decode weather API response: %v",
                      WeatherDecodeError(ans.body)),
          temp |-> 0, err |-> "failed to parse weather data: " \o WeatherDecodeError(ans.body)]
    ELSE IF ans.body.temp_c = 0
    THEN [ctx |-> Log(c, "ERROR: no temperature in weather API response", <<>>),
          temp |-> 0, err |-> "no temperature"]
    ELSE [ctx |-> Log(c, "Successfully fetched temperature for %s: %.1f", <<loc, ans.body.temp_c>>),
          temp |-> ans.body.temp_c, err |-> Nil]

\* A getTemperature that asks for current.temp_c to be there.
getTemperature_RequiresTemp(c, loc, ans) ==
    IF ans.kind = "error"
    THEN [ctx |-> Log(c, "ERROR: Failed to fetch weather data: %v", ans.err),
          temp |-> 0, err |-> "failed to connect to weather API: " \o ans.err]
    ELSE IF ans.status # StatusOK
    THEN LET c1 == Log(c, "ERROR: Weather API returned status %d for location: %s",
                       <<ans.status, loc>>)
             c2 == IF DecodesAsMap(ans.body)
                   THEN Log(c1, "Weather API error details: %+v", ans.body)
                   ELSE c1
         IN  [ctx |-> c2, temp |-> 0, err |-> "weather API error: status"]
    ELSE IF WeatherDecodeError(ans.body) # Nil
    THEN [ctx |-> Log(c, "ERROR: Failed to decode weather API response: %v",
                      WeatherDecodeError(ans.body)),
          temp |-> 0, err |-> "failed to parse weather data: " \o WeatherDecodeError(ans.body)]
    ELSE IF ~ans.body.hasTemp
    THEN [ctx |-> Log(c, "ERROR: Weather API response has no current.temp_c", <<>>),
          temp |-> 0, err |-> "failed to parse weather data: no current.temp_c"]
    ELSE [ctx |-> Log(c, "Successfully fetched temperature for %s: %.1f", <<loc, ans.body.temp_c>>),
          temp |-> ans.body.temp_c, err |-> Nil]

\* A getTemperature that does not look at the status of the response.
getTemperature_IgnoresStatus(c, loc, ans) ==
    IF ans.kind = "error"
    THEN [ctx |-> Log(c, "ERROR: Failed to fetch weather data: %v", ans.err),
          temp |-> 0, err |-> "failed to connect to weather API: " \o ans.err]
    ELSE IF WeatherDecodeError(ans.body) # Nil
    THEN [ctx |-> Log(c, "ERROR: Failed to decode weather API response: %v",
                      WeatherDecodeError(ans.body)),
          temp |-> 0, err |-> "failed to parse weather data: " \o WeatherDecodeError(ans.body)]
    ELSE [ctx |-> Log(c, "Successfully fetched temperature for %s: %.1f", <<loc, ans.body.temp_c>>),
          temp |-> ans.body.temp_c, err |-> Nil]

\* What getTemperature logs and returns once http.Get has returned ans.
getTemperature(c, loc, ans) ==
    IF ans.kind = "error"
    THEN [ctx |-> Log(c, "ERROR: Failed to fetch weather data: %v", ans.err),
          temp |-> 0, err |-> "failed to connect to weather API: " \o ans.err]
    ELSE IF ans.status # StatusOK
    THEN LET c1 == Log(c, "ERROR: Weather API returned status %d for location: %s",
                       <<ans.status, loc>>)
             c2 == IF DecodesAsMap(ans.body)
                   THEN Log(c1, "Weather API error details: %+v", ans.body)
                   ELSE c1
         IN  [ctx |-> c2, temp |-> 0, err |-> "weather API error: status"]
    ELSE IF WeatherDecodeError(ans.body) # Nil
    THEN [ctx |-> Log(c, "ERROR: Failed to decode weather API response: %v",
                      WeatherDecodeError(ans.body)),
          temp |-> 0, err |-> "failed to parse weather data: " \o WeatherDecodeError(ans.body)]
    ELSE [ctx |-> Log(c, "Successfully fetched temperature for %s: %.1f", <<loc, ans.body.temp_c>>),
          temp |-> ans.body.temp_c, err |-> Nil]

----------------------------------------------------------------------------
(* weatherHandler, cut where it blocks in http.Get *)

Finished(c, cp, loc) == [pc |-> "done", cep |-> cp, location |-> loc, ctx |-> c]

\* A failure branch that answers twice: http.Error first, then the JSON
\* response.
WeatherFailure_TwoResponses(c, cp, loc, err) ==
    Finished(Encode(WriteHeader(Encode(WriteHeader(c, StatusInternalServerError),
                                       ErrorResponse(err)),
                                StatusInternalServerError),
                    ErrorResponse("error fetching weather data")),
             cp, loc)

\* The first version of the branch (main.go:92-97): the response, and no log
\* entry.
WeatherFailure_Silent(c, cp, loc, err) ==
    Finished(Encode(WriteHeader(c, StatusInternalServerError),
                    ErrorResponse("error fetching weather data")),
             cp, loc)

\* The branch taken when getTemperature returned an error.
WeatherFailure(c, cp, loc, err) ==
    Finished(Encode(WriteHeader(Log(c, "ERROR: Failed to get temperature for location '%s': %v",
                                    <<loc, err>>),
                                StatusInternalServerError),
                    ErrorResponse("error fetching weather data")),
             cp, loc)

\* A handler with state shared by the requests: once a request was answered,
\* the next ones are turned away.
weatherHandlerBegin_RateLimited(p) ==
    LET cp == TrimSpace(TrimPrefix(p, WeatherPrefix))
        c1 == Log(SetContentType(NewCtx, JsonType), "Received request for CEP: %s", cp)
    IN  IF \E q \in Reqs : pc[q] = "done"
        THEN Finished(Encode(WriteHeader(c1, 429), ErrorResponse("too many requests")),
                      cp, <<>>)
        ELSE IF ~isValidCEP(cp)
        THEN Finished(Encode(WriteHeader(Log(c1, "Invalid CEP format: %s", cp),
                                         StatusUnprocessableEntity),
                             ErrorResponse("invalid zipcode")),
                      cp, <<>>)
        ELSE [pc |-> "addr_wait", cep |-> cp, location |-> <<>>,
              ctx |-> HttpGet(c1, "viacep.com.br", LookupKey(cp))]

\* A handler that looks for the credential first, before it validates the
\* CEP.
weatherHandlerBegin_KeyFirst(p) ==
    LET cp == TrimSpace(TrimPrefix(p, WeatherPrefix))
        c1 == Log(SetContentType(NewCtx, JsonType), "Received request for CEP: %s", cp)
    IN  IF CredentialMissing(apiKey)
        THEN WeatherFailure(Log(c1, "ERROR: WEATHER_API_KEY not set", <<>>),
                            cp, <<>>, "weather API key not configured")
        ELSE IF ~isValidCEP(cp)
        THEN Finished(Encode(WriteHeader(Log(c1, "Invalid CEP format: %s", cp),
                                         StatusUnprocessableEntity),
                             ErrorResponse("invalid zipcode")),
                      cp, <<>>)
        ELSE [pc |-> "addr_wait", cep |-> cp, location |-> <<>>,
              ctx |-> HttpGet(c1, "viacep.com.br", LookupKey(cp))]

\* From the start of the handler to its first http.Get, or to its response.
weatherHandlerBegin(p) ==
    LET cp == TrimSpace(TrimPrefix(p, WeatherPrefix))
        c1 == Log(SetContentType(NewCtx, JsonType), "Received request for CEP: %s", cp)
    IN  IF ~isValidCEP(cp)
        THEN Finished(Encode(WriteHeader(Log(c1, "Invalid CEP format: %s", cp),
                                         StatusUnprocessableEntity),
                             ErrorResponse("invalid zipcode")),
                      cp, <<>>)
        ELSE [pc |-> "addr_wait", cep |-> cp, location |-> <<>>,
              ctx |-> HttpGet(c1, "viacep.com.br", LookupKey(cp))]

\* A handler whose two 500 branches send the same message.
weatherHandlerLocated_OneMessage(c, cp, ans, key) ==
    LET res == getLocationByCEP(ans)
    IN  IF res.err # Nil
        THEN IF res.err = CepNotFound
             THEN Finished(Encode(WriteHeader(Log(c, "CEP not found: %s", cp), StatusNotFound),
                                  ErrorResponse("can not find zipcode")),
                           cp, <<>>)
             ELSE Finished(Encode(WriteHeader(Log(c, "ERROR: Failed to get location for CEP %s: %v",
                                                  <<cp, res.err>>),
                                              StatusInternalServerError),
                                  ErrorResponse("error fetching weather data")),
                           cp, <<>>)
        ELSE LET c1 == Log(c, "Found location for CEP %s: %s", <<cp, res.location>>)
             IN  IF CredentialMissing(key)
                 THEN WeatherFailure(Log(c1, "ERROR: WEATHER_API_KEY not set", <<>>),
                                     cp, res.location, "weather API key not configured")
                 ELSE [pc |-> "weather_wait", cep |-> cp, location |-> res.location,
                       ctx |-> HttpGet(Log(c1, "Fetching weather for location: %s", res.location),
                                       "api.weatherapi.com",
                                       <<key, QueryEscape(res.location)>>)]

\* From the return of the address call to the weather call, or to the response.
weatherHandlerLocated(c, cp, ans, key) ==
    LET res == getLocationByCEP(ans)
    IN  IF res.err # Nil
        THEN IF res.err = CepNotFound
             THEN Finished(Encode(WriteHeader(Log(c, "CEP not found: %s", cp), StatusNotFound),
                                  ErrorResponse("can not find zipcode")),
                           cp, <<>>)
             ELSE Finished(Encode(WriteHeader(Log(c, "ERROR: Failed to get location for CEP %s: %v",
                                                  <<cp, res.err>>),
                                              StatusInternalServerError),
                                  ErrorResponse("internal server error")),
                           cp, <<>>)
        ELSE LET c1 == Log(c, "Found location for CEP %s: %s", <<cp, res.location>>)
             IN  IF CredentialMissing(key)
                 THEN WeatherFailure(Log(c1, "ERROR: WEATHER_API_KEY not set", <<>>),
                                     cp, res.location, "weather API key not configured")
                 ELSE [pc |-> "weather_wait", cep |-> cp, location |-> res.location,
                       ctx |-> HttpGet(Log(c1, "Fetching weather for location: %s", res.location),
                                       "api.weatherapi.com",
                                       <<key, QueryEscape(res.location)>>)]

\* A handler that calls the weather service again, for as long as the call
\* fails.
weatherHandlerMeasured_Retry(c, cp, loc, ans) ==
    LET g == getTemperature(c, loc, ans)
    IN  IF g.err # Nil
        THEN [pc |-> "weather_wait", cep |-> cp, location |-> loc, ctx |-> c]
        ELSE LET f == celsiusToFahrenheit(g.temp)
                 k == celsiusToKelvin(g.temp)
             IN  Finished(Encode(WriteHeader(Log(g.ctx, "Successfully processed CEP %s",
                                                 <<cp, g.temp, f, k>>),
                                             StatusOK),
                                 WeatherResponse(g.temp, f, k)),
                          cp, loc)

\* A handler that keeps the last reading it sent: once a request was
\* answered 200, the next ones get that reading again.
weatherHandlerMeasured_Cached(c, cp, loc, ans) ==
    LET g == getTemperature(c, loc, ans)
        cached == {q \in Reqs : pc[q] = "done" /\ resp[q].status = StatusOK
                                 /\ HasPrefix(urlPath[q], WeatherPrefix)}
        t == IF cached = {} THEN g.temp ELSE resp[CHOOSE q \in cached : TRUE].body[1].temp_C
    IN  IF g.err # Nil
        THEN WeatherFailure(g.ctx, cp, loc, g.err)
        ELSE LET f == celsiusToFahrenheit(t)
                 k == celsiusToKelvin(t)
             IN  Finished(Encode(WriteHeader(Log(g.ctx, "Successfully processed CEP %s",
                                                 <<cp, t, f, k>>),
                                             StatusOK),
                                 WeatherResponse(t, f, k)),
                          cp, loc)

\* From the return of the weather call to the response.
weatherHandlerMeasured(c, cp, loc, ans) ==
    LET g == getTemperature(c, loc, ans)
    IN  IF g.err # Nil
        THEN WeatherFailure(g.ctx, cp, loc, g.err)
        ELSE LET f == celsiusToFahrenheit(g.temp)
                 k == celsiusToKelvin(g.temp)
             IN  Finished(Encode(WriteHeader(Log(g.ctx, "Successfully processed CEP %s",
                                                 <<cp, g.temp, f, k>>),
                                             StatusOK),
                                 WeatherResponse(g.temp, f, k)),
                          cp, loc)

----------------------------------------------------------------------------
(* The server: one handler run per request, requests interleaved *)

NoAnswer == [kind |-> "none", err |-> Nil, status |-> 0, body |-> NoBody]

Ctx(r) == [w |-> resp[r], t |-> trace[r]]

InitHandlers ==
    /\ apiKey \in Keys
    /\ pc = [r \in Reqs |-> "idle"]
    /\ urlPath = [r \in Reqs |-> <<>>]
    /\ cep = [r \in Reqs |-> <<>>]
    /\ location = [r \in Reqs |-> <<>>]
    /\ addrAns = [r \in Reqs |-> NoAnswer]
    /\ weatherAns = [r \in Reqs |-> NoAnswer]
    /\ resp = [r \in Reqs |-> NewCtx.w]
    /\ trace = [r \in Reqs |-> NewCtx.t]

Apply(r, st) ==
    /\ pc' = [pc EXCEPT ![r] = st.pc]
    /\ cep' = [cep EXCEPT ![r] = st.cep]
    /\ location' = [location EXCEPT ![r] = st.location]
    /\ resp' = [resp EXCEPT ![r] = st.ctx.w]
    /\ trace' = [trace EXCEPT ![r] = st.ctx.t]

\* The mux routes a path under /weather/ to weatherHandler.
ServeWeather(r, p) ==
    /\ pc[r] = "idle"
    /\ HasPrefix(p, WeatherPrefix)
    /\ urlPath' = [urlPath EXCEPT ![r] = p]
    /\ Apply(r, weatherHandlerBegin(p))
    /\ UNCHANGED <<apiKey, addrAns, weatherAns, cepVars, convVars>>

\* The mux routes every other path to healthHandler.
ServeHealth(r, p) ==
    /\ pc[r] = "idle"
    /\ ~HasPrefix(p, WeatherPrefix)
    /\ urlPath' = [urlPath EXCEPT ![r] = p]
    /\ Apply(r, Finished(healthHandler(NewCtx), <<>>, <<>>))
    /\ UNCHANGED <<apiKey, addrAns, weatherAns, cepVars, convVars>>

\* http.Get of getLocationByCEP returns.
AddrReturn(r, ans) ==
    /\ pc[r] = "addr_wait"
    /\ addrAns' = [addrAns EXCEPT ![r] = ans]
    /\ Apply(r, weatherHandlerLocated(Ctx(r), cep[r], ans, apiKey))
    /\ UNCHANGED <<apiKey, urlPath, weatherAns, cepVars, convVars>>

\* http.Get of getTemperature returns.
WeatherReturn(r, ans) ==
    /\ pc[r] = "weather_wait"
    /\ weatherAns' = [weatherAns EXCEPT ![r] = ans]
    /\ Apply(r, weatherHandlerMeasured(Ctx(r), cep[r], location[r], ans))
    /\ UNCHANGED <<apiKey, urlPath, addrAns, cepVars, convVars>>

Init == InitHandlers /\ InitCEP /\ InitConv

Next ==
    \/ \E r \in Reqs, p \in WeatherPaths \cup HealthPaths : ServeWeather(r, p)
    \/ \E r \in Reqs, p \in WeatherPaths \cup HealthPaths : ServeHealth(r, p)
    \/ \E r \in Reqs, ans \in AddrAnswers : AddrReturn(r, ans)
    \/ \E r \in Reqs, ans \in WeatherAnswers : WeatherReturn(r, ans)

Spec == Init /\ [][Next]_vars

\* Outbound calls return, with a response or with a transport error: as long
\* as a call is outstanding, one of the outstanding calls returns in the end.
\* Nothing says that a request ever arrives.
SomeCallReturns ==
    \E r \in Reqs :
        \/ \E ans \in AddrAnswers : AddrReturn(r, ans)
        \/ \E ans \in WeatherAnswers : WeatherReturn(r, ans)

CallsReturn == WF_vars(SomeCallReturns)

\* The paths of the specification with fairness: every path of the model but
\* the second of the two well-formed ones, which adds states and no new way
\* for a request to end; the upstream answers are all there.
LivePaths == (WeatherPaths \ {WeatherPrefix \o SegValid}) \cup HealthPaths

NextLive ==
    \/ \E r \in Reqs, p \in LivePaths : ServeWeather(r, p)
    \/ \E r \in Reqs, p \in LivePaths : ServeHealth(r, p)
    \/ \E r \in Reqs, ans \in AddrAnswers : AddrReturn(r, ans)
    \/ \E r \in Reqs, ans \in WeatherAnswers : WeatherReturn(r, ans)

SpecLive == Init /\ [][NextLive]_vars /\ CallsReturn

\* No request is served: the server state of the specifications of the pure
\* functions.
InitQuiet ==
    /\ apiKey = ""
    /\ pc = [r \in Reqs |-> "idle"]
    /\ urlPath = [r \in Reqs |-> <<>>]
    /\ cep = [r \in Reqs |-> <<>>]
    /\ location = [r \in Reqs |-> <<>>]
    /\ addrAns = [r \in Reqs |-> NoAnswer]
    /\ weatherAns = [r \in Reqs |-> NoAnswer]
    /\ resp = [r \in Reqs |-> NewCtx.w]
    /\ trace = [r \in Reqs |-> NewCtx.t]

InitCEPSpec == InitQuiet /\ InitCEP /\ InitConv

NextCEP ==
    \/ \E ch \in Chars : TypeChar(ch) /\ UNCHANGED <<handlerVars, convVars>>
    \/ Validate /\ UNCHANGED <<handlerVars, convVars>>

SpecCEP == InitCEPSpec /\ [][NextCEP]_vars

InitConvSpec ==
    /\ InitQuiet
    /\ InitCEP
    /\ celsius \in CelsiusInputs
    /\ convDone = FALSE
    /\ tempF = 0
    /\ tempK = 0

NextConv == Convert /\ UNCHANGED <<handlerVars, cepVars>>

SpecConv == InitConvSpec /\ [][NextConv]_vars

----------------------------------------------------------------------------
(* Vocabulary of the properties *)

Done(r) == pc[r] = "done"

WeatherRequest(r) == pc[r] # "idle" /\ HasPrefix(urlPath[r], WeatherPrefix)

HealthRequest(r) == pc[r] # "idle" /\ ~HasPrefix(urlPath[r], WeatherPrefix)

\* The number of http.Get calls request r has issued to host svc.
Calls(r, svc) ==
    Cardinality({i \in DOMAIN trace[r] : trace[r][i].ev = "httpGet" /\ trace[r][i].a = svc})

AddrCalls(r) == Calls(r, "viacep.com.br")

WeatherCalls(r) == Calls(r, "api.weatherapi.com")

\* Request r has sent the status line code and the one body v.
Answered(r, code, v) ==
    /\ resp[r].wroteHeader
    /\ resp[r].status = code
    /\ resp[r].body = <<v>>

DigitCount(s) == Cardinality({i \in 1..Len(s) : s[i] \in Digits})

HyphenCount(s) == Cardinality({i \in 1..Len(s) : s[i] = "-"})

\* The format of a CEP, stated without the validator: eight digits in all,
\* and nothing but digits and hyphens.
WellFormedCEP(s) ==
    /\ DigitCount(s) = 8
    /\ \A i \in 1..Len(s) : s[i] \in Digits \cup {"-"}

\* s without its i-th character.
Without(s, i) == SubSeq(s, 1, i - 1) \o SubSeq(s, i + 1, Len(s))

\* s with ch inserted before its i-th character.
Inserted(s, i, ch) == SubSeq(s, 1, i - 1) \o <<ch>> \o SubSeq(s, i, Len(s))

EightDigits(s) == Len(s) = 8 /\ DigitCount(s) = 8

\* The address service answered that the CEP does not exist.
ReportsNoSuchCEP(ans) ==
    /\ ans.kind = "response"
    /\ ans.status = 200
    /\ ans.body.kind = "object"
    /\ (ans.body.erro \in {"bool", "string"} \/ ans.body.localidade = <<>>)

\* The address call failed in transport, or returned 200 with a body that
\* does not decode.
AddrUnreachableOrUndecodable(ans) ==
    \/ ans.kind = "error"
    \/ ans.kind = "response" /\ ans.status = 200 /\ ans.body.kind \in {"garbage", "mistyped"}

\* The address call returned a location.
AddrFound(ans) ==
    /\ ans.kind = "response"
    /\ ans.status = 200
    /\ ans.body.kind = "object"
    /\ ans.body.erro = "absent"
    /\ ans.body.localidade # <<>>

\* The weather call returned a reading.
WeatherFound(ans) ==
    ans.kind = "response" /\ ans.status = 200 /\ ans.body.kind = "object"

\* A failure of the weather call: transport, status, body.
WeatherCallFailed(ans) ==
    \/ ans.kind = "error"
    \/ ans.kind = "response" /\ ans.status # 200
    \/ ans.kind = "response" /\ ans.status = 200 /\ ans.body.kind \in {"garbage", "mistyped"}

\* The one response of every weather failure, as the client sees it.
WeatherErrorSent ==
    [header |-> "application/json", wroteHeader |-> TRUE, status |-> 500,
     contentType |-> "application/json",
     body |-> <<[message |-> "error fetching weather data"]>>]

----------------------------------------------------------------------------
(* Properties *)

\* C1: a /weather/ request whose CEP (the path after /weather/, surrounding
\* white space trimmed) is not well formed is answered 422 "invalid zipcode"
\* at once, and no call to the address or the weather service is ever issued
\* for it.
C1_InvalidCepIs422 ==
    \A r \in Reqs :
        (WeatherRequest(r) /\ ~WellFormedCEP(cep[r])) =>
            /\ Done(r)
            /\ Answered(r, 422, [message |-> "invalid zipcode"])
            /\ AddrCalls(r) = 0
            /\ WeatherCalls(r) = 0

C1_Witness ==
    \E r \in Reqs :
        /\ Done(r)
        /\ urlPath[r] = WeatherPrefix \o SegLetter
        /\ resp[r].status = 422

\* C2: a well-formed CEP that the address service reports as not existing
\* is answered 404 "can not find zipcode", and the weather service is not
\* called for that request.
C2_UnknownCepIs404 ==
    \A r \in Reqs :
        (WeatherRequest(r) /\ WellFormedCEP(cep[r]) /\ ReportsNoSuchCEP(addrAns[r])) =>
            /\ Done(r)
            /\ Answered(r, 404, [message |-> "can not find zipcode"])
            /\ AddrCalls(r) = 1
            /\ WeatherCalls(r) = 0

C2_Witness ==
    \E r \in Reqs :
        /\ Done(r)
        /\ addrAns[r] = HttpResponse(200, AddrBodyErroString)
        /\ resp[r].status = 404

\* C3: when the address call fails in transport, or returns 200 with a body
\* that does not decode, getLocationByCEP returns an error other than
\* "CEP not found" and the client receives 500 "internal server error":
\* not 404, and not the message of the weather failure.
C3_ResolutionErrorIs500 ==
    \A r \in Reqs :
        (WeatherRequest(r) /\ AddrUnreachableOrUndecodable(addrAns[r])) =>
            /\ getLocationByCEP(addrAns[r]).err \notin {Nil, "CEP not found"}
            /\ Done(r)
            /\ Answered(r, 500, [message |-> "internal server error"])
            /\ WeatherCalls(r) = 0

C3_Witness ==
    \E r1, r2 \in Reqs :
        /\ Done(r1) /\ addrAns[r1].kind = "error" /\ resp[r1].status = 500
        /\ Done(r2) /\ addrAns[r2] = HttpResponse(200, AddrBodyGarbage) /\ resp[r2].status = 500

\* C4: once the location is resolved, every failure of getTemperature
\* (credential unset, transport failure, status other than 200, body that
\* does not decode) gives the client one and the same response: 500 with
\* message "error fetching weather data".
C4_WeatherFailureIs500 ==
    \A r \in Reqs :
        (/\ WeatherRequest(r)
         /\ AddrFound(addrAns[r])
         /\ (apiKey = "" \/ WeatherCallFailed(weatherAns[r]))) =>
            /\ Done(r)
            /\ resp[r] = WeatherErrorSent

C4_Witness ==
    \E r1, r2 \in Reqs :
        /\ Done(r1) /\ weatherAns[r1].kind = "error" /\ resp[r1] = WeatherErrorSent
        /\ Done(r2) /\ weatherAns[r2].kind = "response" /\ weatherAns[r2].status = 401
        /\ resp[r2] = WeatherErrorSent

C7_FahrenheitExact ==
    convDone =>
        /\ tempF \in Int
        /\ 10 * tempF = 18 * celsius + 32000
        /\ (celsius = 0 => tempF = 3200)
        /\ (celsius = 10000 => tempF = 21200)
        /\ (celsius = -4000 => tempF = -4000)
        /\ (celsius = 2500 => tempF = 7700)

C7_Witness == convDone /\ celsius = -4000 /\ tempF = -4000

\* The strings C8 says are accepted: eight digits, or eight digits with one
\* hyphen that is neither the first nor the last character.
EightDigitsOneInteriorHyphen(s) ==
    \/ EightDigits(s)
    \/ /\ Len(s) = 9
       /\ HyphenCount(s) = 1
       /\ DigitCount(s) = 8
       /\ s[1] # "-"
       /\ s[9] # "-"

\* C8 as claimed: isValidCEP accepts the strings of exactly 8 digits with or
\* without one interior hyphen, and rejects every other string.
C8_AcceptsOnlyOneInteriorHyphen ==
    cepChecked => (cepResult <=> EightDigitsOneInteriorHyphen(cepIn))

\* C8, amended: isValidCEP accepts exactly the strings that hold 8 decimal
\* digits and otherwise only hyphens, however many hyphens there are and
\* wherever they stand (first and last place included); it rejects every
\* other string: another count of digits, any other character, the empty
\* string, and any string with a white space in it.
C8_AcceptsIffEightDigitsAndHyphens ==
    cepChecked =>
        /\ cepResult <=> WellFormedCEP(cepIn)
        /\ cepIn = <<>> => ~cepResult
        /\ \A i \in 1..(Len(cepIn) + 1) : ~isValidCEP(Inserted(cepIn, i, " "))

C8_Witness == cepChecked /\ cepResult /\ HyphenCount(cepIn) = 2 /\ cepIn[1] = "-"

\* C9: isValidCEP does not look at where the hyphen stands: a string with
\* one hyphen, at whatever place, is accepted exactly when the string
\* without that hyphen is 8 decimal digits.
C9_HyphenPositionFree ==
    cepChecked =>
        \A i \in 1..Len(cepIn) :
            (cepIn[i] = "-" /\ HyphenCount(cepIn) = 1) =>
                (cepResult <=> EightDigits(Without(cepIn, i)))

C9_Witness ==
    /\ cepChecked
    /\ cepResult
    /\ cepIn = <<"0", "0", "-", "0", "0", "0", "0", "0", "0">>

\* C10: healthHandler answers every request 200 with body {"status":"ok"},
\* issues no outbound call, whatever the credential and whatever the other
\* requests and their upstream calls are doing.
C10_HealthAlwaysOk ==
    \A r \in Reqs :
        HealthRequest(r) =>
            /\ Done(r)
            /\ Answered(r, 200, [status |-> "ok"])
            /\ AddrCalls(r) = 0
            /\ WeatherCalls(r) = 0

C10_Witness ==
    \E r1, r2 \in Reqs :
        /\ apiKey = ""
        /\ HealthRequest(r1) /\ resp[r1].status = 200
        /\ WeatherRequest(r2) /\ resp[r2].status = 500

----------------------------------------------------------------------------
(* Vocabulary of the properties on traces *)

\* The places of request r's trace that hold an event of this kind.
Indices(r, kind) == {i \in DOMAIN trace[r] : trace[r][i].ev = kind}

\* The places of request r's trace that hold a call to host svc.
CallIndices(r, svc) ==
    {i \in DOMAIN trace[r] : trace[r][i].ev = "httpGet" /\ trace[r][i].a = svc}

\* What the weather service reads in the q parameter: + is a space, %XX the
\* byte XX (here the comma, and the two bytes of a-tilde).
RECURSIVE QueryUnescapeFrom(_, _)
QueryUnescapeFrom(s, i) ==
    IF i > Len(s) THEN <<>>
    ELSE IF s[i] = "+" THEN <<" ">> \o QueryUnescapeFrom(s, i + 1)
    ELSE IF s[i] # "%" THEN <<s[i]>> \o QueryUnescapeFrom(s, i + 1)
    ELSE IF i + 2 <= Len(s) /\ s[i + 1] = "2" /\ s[i + 2] = "C"
         THEN <<",">> \o QueryUnescapeFrom(s, i + 3)
    ELSE IF i + 5 <= Len(s) /\ SubSeq(s, i, i + 5) = <<"%", "C", "3", "%", "A", "3">>
         THEN <<"ã">> \o QueryUnescapeFrom(s, i + 6)
    ELSE <<s[i]>> \o QueryUnescapeFrom(s, i + 1)

QueryUnescape(s) == QueryUnescapeFrom(s, 1)

\* The class of a status code: 2 for 2xx, 4 for 4xx, 5 for 5xx.
StatusClass(code) == code \div 100

\* Two answers of the weather service that differ at most in the reading.
WeatherSameKind(a, b) ==
    /\ a.kind = b.kind
    /\ a.status = b.status
    /\ a.body.kind = b.body.kind

----------------------------------------------------------------------------
(* Properties, continued *)

\* C11: every response of the service, the health response and each of the
\* five /weather/ responses, is sent with Content-Type application/json,
\* set by the handler before it writes the status.
C11_AllResponsesJson ==
    \A r \in Reqs :
        resp[r].wroteHeader =>
            /\ resp[r].contentType = "application/json"
            /\ \E i \in Indices(r, "setHeader"), j \in Indices(r, "writeHeader") :
                   i < j /\ trace[r][i].b = "application/json"

\* C12 as claimed: two requests with the same /weather/ path are answered
\* with statuses of the same class.
C12_SamePathSameClass ==
    \A r1, r2 \in Reqs :
        (/\ WeatherRequest(r1) /\ Done(r1)
         /\ WeatherRequest(r2) /\ Done(r2)
         /\ urlPath[r1] = urlPath[r2]) =>
            StatusClass(resp[r1].status) = StatusClass(resp[r2].status)

\* C12, amended: two requests with the same /weather/ path are answered with
\* statuses of the same class when the address service gives both the same
\* answer and the weather service gives both an answer of the same kind
\* (same transport outcome, same status, same decodability); the readings,
\* and so the temperatures of the bodies, may differ.
C12_SameAnswersSameClass ==
    \A r1, r2 \in Reqs :
        (/\ WeatherRequest(r1) /\ Done(r1)
         /\ WeatherRequest(r2) /\ Done(r2)
         /\ urlPath[r1] = urlPath[r2]
         /\ addrAns[r1] = addrAns[r2]
         /\ WeatherSameKind(weatherAns[r1], weatherAns[r2])) =>
            StatusClass(resp[r1].status) = StatusClass(resp[r2].status)

C12_Witness ==
    \E r1, r2 \in Reqs :
        /\ Done(r1) /\ Done(r2)
        /\ urlPath[r1] = urlPath[r2]
        /\ weatherAns[r1] = HttpResponse(200, WeatherBodyTemp(0))
        /\ weatherAns[r2] = HttpResponse(200, WeatherBodyTemp(2870))
        /\ resp[r1].status = 200
        /\ resp[r2].status = 200
        /\ resp[r1].body # resp[r2].body

\* C13: within one request the stages run in the order validate, address
\* lookup, weather lookup, convert, and the request ends at the first stage
\* that fails: the address call is issued for a well-formed CEP only; the
\* weather call is issued only after the address call of the same request
\* returned a location, and the query it carries is that location, "City,ST";
\* nothing is called after the response; a 200 is sent only after the
\* weather call returned.  (The query is decoded while the weather call is
\* outstanding; the trace only grows afterwards.)
C13_StagesInOrder ==
    \A r \in Reqs :
        WeatherRequest(r) =>
            LET addrCalls == CallIndices(r, "viacep.com.br")
                weatherCalls == CallIndices(r, "api.weatherapi.com")
                sent == Indices(r, "writeHeader")
            IN
            /\ addrCalls # {} => WellFormedCEP(cep[r])
            /\ \A i \in addrCalls : \A h \in sent : i < h
            /\ \A j \in weatherCalls :
                   /\ \E i \in addrCalls : i < j
                   /\ AddrFound(addrAns[r])
                   /\ location[r] = addrAns[r].body.localidade \o <<",">> \o addrAns[r].body.uf
                   /\ pc[r] = "weather_wait" => QueryUnescape(trace[r][j].b[2]) = location[r]
                   /\ \A h \in sent : j < h
            /\ pc[r] = "addr_wait" => (addrAns[r] = NoAnswer /\ weatherAns[r] = NoAnswer)
            /\ pc[r] = "weather_wait" => (AddrFound(addrAns[r]) /\ weatherAns[r] = NoAnswer)
            /\ (addrAns[r] # NoAnswer /\ ~AddrFound(addrAns[r])) =>
                   (Done(r) /\ WeatherCalls(r) = 0 /\ resp[r].status # 200)
            /\ ~WellFormedCEP(cep[r]) => (Done(r) /\ AddrCalls(r) = 0 /\ addrAns[r] = NoAnswer)
            /\ resp[r].status = 200 =>
                   (WeatherCalls(r) = 1 /\ WeatherFound(weatherAns[r]))

C13_Witness ==
    \E r \in Reqs :
        /\ pc[r] = "weather_wait"
        /\ location[r] = <<"S", "ã", "o", " ", "P", "a", "u", "l", "o", ",", "S", "P">>
        /\ \E j \in CallIndices(r, "api.weatherapi.com") :
               trace[r][j].b[2] = <<"S", "%", "C", "3", "%", "A", "3", "o", "+", "P", "a", "u",
                                    "l", "o", "%", "2", "C", "S", "P">>

\* C14: nothing is retried: a request issues at most one call to the address
\* service and at most one call to the weather service, whatever the outcome
\* of each call.
C14_NoRetry ==
    \A r \in Reqs :
        /\ AddrCalls(r) <= 1
        /\ WeatherCalls(r) <= 1
        /\ Cardinality(Indices(r, "httpGet")) <= 2

C14_Witness ==
    \E r1, r2 \in Reqs :
        /\ Done(r1) /\ addrAns[r1].kind = "error" /\ AddrCalls(r1) = 1 /\ WeatherCalls(r1) = 0
        /\ Done(r2) /\ weatherAns[r2].kind = "error" /\ AddrCalls(r2) = 1 /\ WeatherCalls(r2) = 1

\* The bodies the address service may send with a status other than 200.
AnyAddrBody ==
    {AddrBodyGarbage, AddrBodyMistyped, AddrBodyFound, AddrBodyErroBool,
     AddrBodyErroString, AddrBodyNoCity, AddrBodyErroFalse}

\* C15: when the address service answers with a status other than 200,
\* getLocationByCEP reports "CEP not found" and the client receives 404,
\* whatever the body is, decodable or not: the result is the same for every
\* body (the second part is about the function alone and is evaluated in
\* the states where no request has started).
C15_NonOkStatusIsNotFound ==
    /\ \A r \in Reqs :
           (/\ WeatherRequest(r)
            /\ addrAns[r].kind = "response"
            /\ addrAns[r].status # 200) =>
               /\ Done(r)
               /\ Answered(r, 404, [message |-> "can not find zipcode"])
               /\ WeatherCalls(r) = 0
    /\ (\A r \in Reqs : pc[r] = "idle") =>
           \A st \in {301, 400, 404, 500, 503} : \A b \in AnyAddrBody :
               getLocationByCEP(HttpResponse(st, b)) = [location |-> <<>>, err |-> "CEP not found"]

C15_Witness ==
    \E r1, r2 \in Reqs :
        /\ Done(r1) /\ addrAns[r1] = HttpResponse(400, AddrBodyGarbage) /\ resp[r1].status = 404
        /\ Done(r2) /\ addrAns[r2] = HttpResponse(500, AddrBodyFound) /\ resp[r2].status = 404

\* C16: for a 200 answer of the address service with a well-formed JSON
\* body, getLocationByCEP reports "CEP not found" whenever erro is there, as
\* a boolean or as a string, or the city is empty, and never a decode error;
\* it returns a location only when erro is absent and the city is not empty.
C16_ErroOfAnyTypeIsNotFound ==
    \A r \in Reqs :
        (/\ WeatherRequest(r)
         /\ addrAns[r].kind = "response"
         /\ addrAns[r].status = 200
         /\ addrAns[r].body.kind = "object") =>
            LET body == addrAns[r].body
                res == getLocationByCEP(addrAns[r])
            IN  /\ res.err \in {Nil, "CEP not found"}
                /\ (body.erro \in {"bool", "boolFalse", "string"} \/ body.localidade = <<>>) =>
                       /\ res.err = "CEP not found"
                       /\ Done(r)
                       /\ Answered(r, 404, [message |-> "can not find zipcode"])
                /\ (body.erro = "absent" /\ body.localidade # <<>>) =>
                       /\ res.err = Nil
                       /\ res.location = body.localidade \o <<",">> \o body.uf
                       /\ location[r] = res.location
                       /\ resp[r].status # 404
                /\ location[r] # <<>> => (body.erro = "absent" /\ body.localidade # <<>>)

C16_Witness ==
    \E r1, r2 \in Reqs :
        /\ Done(r1) /\ addrAns[r1] = HttpResponse(200, AddrBodyErroString) /\ resp[r1].status = 404
        /\ Done(r2) /\ addrAns[r2] = HttpResponse(200, AddrBodyErroBool) /\ resp[r2].status = 404

\* C17: when WEATHER_API_KEY is unset or empty, getTemperature fails at once
\* with the error "weather API key not configured" and no request is issued
\* to the weather service; with the key set the request is issued.
C17_NoKeyNoWeatherCall ==
    \A r \in Reqs :
        (WeatherRequest(r) /\ AddrFound(addrAns[r])) =>
            IF apiKey = ""
            THEN /\ Done(r)
                 /\ WeatherCalls(r) = 0
                 /\ weatherAns[r] = NoAnswer
                 /\ \E i \in Indices(r, "log") :
                        trace[r][i].a = "ERROR: WEATHER_API_KEY not set"
                 /\ \E i \in Indices(r, "log") :
                        trace[r][i].b = <<location[r], "weather API key not configured">>
                 /\ resp[r].status = 500
            ELSE WeatherCalls(r) = 1

C17_Witness ==
    \E r \in Reqs :
        /\ apiKey = ""
        /\ Done(r)
        /\ AddrFound(addrAns[r])
        /\ resp[r] = WeatherErrorSent

\* The outcomes of a /weather/ request that the response of request r fits.
OutcomesOf(r) ==
    {o \in {"Success", "InvalidFormat", "LocationNotFound", "UpstreamFailure"} :
        /\ Len(resp[r].body) >= 1
        /\ CASE o = "Success" ->
                    /\ resp[r].status = 200
                    /\ DOMAIN resp[r].body[1] = {"temp_C", "temp_F", "temp_K"}
             [] o = "InvalidFormat" ->
                    /\ resp[r].status = 422
                    /\ resp[r].body[1] = [message |-> "invalid zipcode"]
             [] o = "LocationNotFound" ->
                    /\ resp[r].status = 404
                    /\ resp[r].body[1] = [message |-> "can not find zipcode"]
             [] o = "UpstreamFailure" ->
                    /\ resp[r].status = 500
                    /\ resp[r].body[1] \in {[message |-> "internal server error"],
                                            [message |-> "error fetching weather data"]}}

ReqState(r) ==
    <<pc[r], urlPath[r], cep[r], location[r], addrAns[r], weatherAns[r], resp[r], trace[r]>>

\* C19: requests handled together do not influence each other.  In every
\* state, two requests with the same path and the same answers to their own
\* calls are at the same point with the same response and the same trace,
\* whatever the other did in between; and a step of one request changes
\* nothing of another request, nor the credential.
C19_RequestsIndependent ==
    /\ [](\A r1, r2 \in Reqs :
            (/\ pc[r1] # "idle"
             /\ pc[r2] # "idle"
             /\ urlPath[r1] = urlPath[r2]
             /\ addrAns[r1] = addrAns[r2]
             /\ weatherAns[r1] = weatherAns[r2]) =>
                ReqState(r1) = ReqState(r2))
    /\ [][/\ apiKey' = apiKey
          /\ \A r1, r2 \in Reqs :
                (r1 # r2 /\ ReqState(r1)' # ReqState(r1)) => ReqState(r2)' = ReqState(r2)]_vars

C19_Witness ==
    \E r1, r2 \in Reqs :
        /\ r1 # r2
        /\ urlPath[r1] = urlPath[r2]
        /\ pc[r1] = "weather_wait"
        /\ Done(r2)
        /\ resp[r2].status = 200

\* The digits of s, in order.
DigitsOf(s) == SelectSeq(s, LAMBDA ch : ch \in Digits)

\* C20: the key getLocationByCEP puts in the URL of the address service is
\* the CEP without its hyphens and is exactly 8 decimal digits; a CEP with
\* hyphens and the same CEP without them therefore give the same call, the
\* key being the digits of the CEP alone.
C20_LookupKeyIsEightDigits ==
    \A r \in Reqs : \A i \in CallIndices(r, "viacep.com.br") :
        /\ trace[r][i].b = DigitsOf(cep[r])
        /\ EightDigits(trace[r][i].b)

C20_Witness ==
    \E r1, r2 \in Reqs :
        /\ cep[r1] = SegValid
        /\ cep[r2] = TrimSpace(SegOddHyphen)
        /\ HyphenCount(cep[r2]) = 1
        /\ \E i1 \in CallIndices(r1, "viacep.com.br"), i2 \in CallIndices(r2, "viacep.com.br") :
               trace[r1][i1].b = SegValid /\ trace[r2][i2].b = SegValid

\* The entry at place i of request r's trace is a log entry of weatherHandler
\* with the given format.
LoggedAt(r, i, format) ==
    /\ i \in DOMAIN trace[r]
    /\ trace[r][i].ev = "log"
    /\ trace[r][i].a = format

\* C21: every failure branch of a /weather/ request (invalid format, not
\* found, resolution error, weather failure) writes a log entry of its own
\* before it writes the response, and the entry carries the input CEP or,
\* for a weather failure, the resolved location.
C21_FailureLoggedBeforeResponse ==
    \A r \in Reqs :
        (WeatherRequest(r) /\ Done(r) /\ resp[r].status # 200) =>
            LET n == Len(trace[r])
                i == n - 2
                msg == resp[r].body[1].message
            IN  /\ \A h \in Indices(r, "writeHeader") : i < h
                /\ \A h \in Indices(r, "write") : i < h
                /\ CASE msg = "invalid zipcode" ->
                            LoggedAt(r, i, "Invalid CEP format: %s") /\ trace[r][i].b = cep[r]
                     [] msg = "can not find zipcode" ->
                            LoggedAt(r, i, "CEP not found: %s") /\ trace[r][i].b = cep[r]
                     [] msg = "internal server error" ->
                            /\ LoggedAt(r, i, "ERROR: Failed to get location for CEP %s: %v")
                            /\ trace[r][i].b[1] = cep[r]
                     [] msg = "error fetching weather data" ->
                            /\ LoggedAt(r, i, "ERROR: Failed to get temperature for location '%s': %v")
                            /\ trace[r][i].b[1] = location[r]
                            /\ location[r] # <<>>
                     [] OTHER -> FALSE

C21_Witness ==
    \E r1, r2 \in Reqs :
        /\ Done(r1) /\ resp[r1].status = 422 /\ cep[r1] # <<>>
        /\ Done(r2) /\ resp[r2].body = <<[message |-> "error fetching weather data"]>>
        /\ weatherAns[r2].kind = "error"

\* C22: the status and the message of a /weather/ response are tied to each
\* other and to the calls made.  The status is 200, 404, 422 or 500; 422
\* comes with no outbound call; 404 and 500 "internal server error" come
\* after exactly one address call and no weather call; 500 "error fetching
\* weather data" comes only after an address call that succeeded; 200 comes
\* only after an address call and a weather call of this request succeeded.
C22_StatusMessageCallsTied ==
    \A r \in Reqs :
        (WeatherRequest(r) /\ Done(r)) =>
            LET st == resp[r].status
                body == resp[r].body[1]
                addr == AddrCalls(r)
                weather == WeatherCalls(r)
            IN  /\ st \in {200, 404, 422, 500}
                /\ st = 422 =>
                       /\ body = [message |-> "invalid zipcode"]
                       /\ addr = 0 /\ weather = 0
                       /\ Indices(r, "httpGet") = {}
                /\ st = 404 =>
                       /\ body = [message |-> "can not find zipcode"]
                       /\ addr = 1 /\ weather = 0
                       /\ ~AddrFound(addrAns[r])
                /\ st = 500 =>
                       \/ /\ body = [message |-> "internal server error"]
                          /\ addr = 1 /\ weather = 0
                          /\ ~AddrFound(addrAns[r])
                       \/ /\ body = [message |-> "error fetching weather data"]
                          /\ addr = 1 /\ weather <= 1
                          /\ AddrFound(addrAns[r])
                          /\ weather = 1 => WeatherCallFailed(weatherAns[r])
                /\ st = 200 =>
                       /\ DOMAIN body = {"temp_C", "temp_F", "temp_K"}
                       /\ addr = 1 /\ weather = 1
                       /\ AddrFound(addrAns[r])
                       /\ WeatherFound(weatherAns[r])

C22_Witness ==
    \E r1, r2 \in Reqs :
        /\ Done(r1) /\ resp[r1].body = <<[message |-> "internal server error"]>>
        /\ AddrCalls(r1) = 1 /\ WeatherCalls(r1) = 0
        /\ Done(r2) /\ resp[r2].body = <<[message |-> "error fetching weather data"]>>
        /\ AddrCalls(r2) = 1 /\ WeatherCalls(r2) = 1

\* The address service answered, and not with a location.
AddrUnresolved(ans) ==
    /\ ans.kind = "response"
    /\ \/ ans.status # 200
       \/ /\ ans.body.kind = "object"
          /\ (ans.body.erro # "absent" \/ ans.body.localidade = <<>>)

\* C23: an absent credential touches only the requests that reach the
\* weather stage.  With WEATHER_API_KEY unset a malformed CEP is still
\* answered 422 and an unresolvable CEP still 404; a resolvable CEP is
\* answered 500 "error fetching weather data" after exactly one address call
\* and no weather call; the credential is looked for only after the address
\* lookup has succeeded.  (The last part compares the handler with and
\* without the credential on every path and every address answer that is
\* not a location; it is about the functions alone and is evaluated in the
\* states where no request has started.)
C23_CredentialOnlyAtWeatherStage ==
    /\ \A r \in Reqs :
           (WeatherRequest(r) /\ apiKey = "") =>
               /\ ~WellFormedCEP(cep[r]) =>
                      Answered(r, 422, [message |-> "invalid zipcode"])
               /\ AddrUnresolved(addrAns[r]) =>
                      Answered(r, 404, [message |-> "can not find zipcode"])
               /\ AddrFound(addrAns[r]) =>
                      /\ Answered(r, 500, [message |-> "error fetching weather data"])
                      /\ AddrCalls(r) = 1
                      /\ WeatherCalls(r) = 0
               /\ \A k \in Indices(r, "log") :
                      trace[r][k].a = "ERROR: WEATHER_API_KEY not set" =>
                          /\ AddrFound(addrAns[r])
                          /\ \E i \in CallIndices(r, "viacep.com.br") : i < k
                          /\ LoggedAt(r, k - 1, "Found location for CEP %s: %s")
    /\ (\A r \in Reqs : pc[r] = "idle") =>
           \A p \in WeatherPaths :
               LET begun == weatherHandlerBegin(p)
               IN  begun.pc # "done" =>
                       \A ans \in AddrAnswers :
                           ~AddrFound(ans) =>
                               weatherHandlerLocated(begun.ctx, begun.cep, ans, "")
                                   = weatherHandlerLocated(begun.ctx, begun.cep, ans, "secret")

C23_Witness ==
    \E r1, r2 \in Reqs :
        /\ apiKey = ""
        /\ Done(r1) /\ AddrUnresolved(addrAns[r1]) /\ resp[r1].status = 404
        /\ Done(r2) /\ AddrFound(addrAns[r2]) /\ resp[r2].status = 500
        /\ WeatherCalls(r2) = 0

\* Request r waits for an outbound call to return.
Waiting(r) == pc[r] \in {"addr_wait", "weather_wait"}

\* C24: if every outbound call returns in the end, every /weather/ request
\* ends with a response.  The handler has no timeout of its own: while a
\* call is outstanding nothing is sent, and a request leaves the wait only
\* by the return of its call, so a request whose call never returns never
\* gets a response.
C24_TerminatesIfCallsReturn ==
    /\ \A r \in Reqs : WeatherRequest(r) ~> (Done(r) /\ resp[r].wroteHeader /\ Len(resp[r].body) = 1)
    /\ [](\A r \in Reqs : Waiting(r) => (~resp[r].wroteHeader /\ resp[r].body = <<>>))
    /\ [][\A r \in Reqs :
            /\ (pc[r] = "addr_wait" /\ ReqState(r)' # ReqState(r)) =>
                   (addrAns[r] = NoAnswer /\ addrAns'[r] \in AddrAnswers)
            /\ (pc[r] = "weather_wait" /\ ReqState(r)' # ReqState(r)) =>
                   (weatherAns[r] = NoAnswer /\ weatherAns'[r] \in WeatherAnswers)
            /\ pc[r] = "done" => ReqState(r)' = ReqState(r)]_vars

C24_Witness ==
    \E r1, r2 \in Reqs :
        /\ pc[r1] = "addr_wait" /\ ~resp[r1].wroteHeader
        /\ Done(r2) /\ AddrCalls(r2) = 1 /\ WeatherCalls(r2) = 1
        /\ weatherAns[r2].kind = "error"

\* One run of weatherHandler from its start to its response: path p,
\* credential key, a the answer of the address service and w the answer of
\* the weather service (each used only if the run gets that far).
RunHandler(p, key, a, w) ==
    LET begun == weatherHandlerBegin(p)
        located == weatherHandlerLocated(begun.ctx, begun.cep, a, key)
    IN  IF begun.pc = "done" THEN begun
        ELSE IF located.pc = "done" THEN located
        ELSE weatherHandlerMeasured(located.ctx, located.cep, located.location, w)

\* The status and the body that the inputs of a run call for, told from the
\* inputs alone: path p, whether the credential is set, the answer a of the
\* address service and the answer w of the weather service.
ExpectedResponse(p, hasKey, a, w) ==
    LET cp == TrimSpace(TrimPrefix(p, WeatherPrefix))
        t == w.body.temp_c
    IN  IF ~WellFormedCEP(cp)
        THEN [status |-> 422, body |-> <<[message |-> "invalid zipcode"]>>]
        ELSE IF AddrUnresolved(a)
        THEN [status |-> 404, body |-> <<[message |-> "can not find zipcode"]>>]
        ELSE IF ~AddrFound(a)
        THEN [status |-> 500, body |-> <<[message |-> "internal server error"]>>]
        ELSE IF ~hasKey \/ WeatherCallFailed(w)
        THEN [status |-> 500, body |-> <<[message |-> "error fetching weather data"]>>]
        ELSE [status |-> 200,
              body |-> <<[temp_C |-> t, temp_F |-> (t * 18) \div 10 + 3200,
                          temp_K |-> t + 27315]>>]

\* C25: the handler is a function of its inputs.  Two runs with the same
\* path, the same credential presence and the same upstream answers send the
\* same status and the same body: so do two finished requests of one
\* behaviour; the response of a finished request is the one its own inputs
\* call for, whatever the other requests did before; and two runs with two
\* different credentials, both set, send the same (this part is about the
\* functions alone and is evaluated in the states where no request has
\* started).
C25_SameInputsSameResponse ==
    /\ \A r1, r2 \in Reqs :
           (/\ WeatherRequest(r1) /\ Done(r1)
            /\ WeatherRequest(r2) /\ Done(r2)
            /\ urlPath[r1] = urlPath[r2]
            /\ addrAns[r1] = addrAns[r2]
            /\ weatherAns[r1] = weatherAns[r2]) =>
               /\ resp[r1].status = resp[r2].status
               /\ resp[r1].body = resp[r2].body
    /\ \A r \in Reqs :
           (WeatherRequest(r) /\ Done(r)) =>
               LET due == ExpectedResponse(urlPath[r], apiKey # "", addrAns[r], weatherAns[r])
               IN  /\ resp[r].status = due.status
                   /\ resp[r].body = due.body
    /\ (\A r \in Reqs : pc[r] = "idle") =>
           \A p \in WeatherPaths, a \in AddrAnswers, w \in WeatherAnswers :
               LET one == RunHandler(p, "secret", a, w)
                   other == RunHandler(p, "another", a, w)
               IN  /\ one.ctx.w.status = other.ctx.w.status
                   /\ one.ctx.w.body = other.ctx.w.body

C25_Witness ==
    \E r1, r2 \in Reqs :
        /\ r1 # r2
        /\ Done(r1) /\ Done(r2)
        /\ urlPath[r1] = urlPath[r2]
        /\ addrAns[r1] = addrAns[r2]
        /\ weatherAns[r1] = weatherAns[r2]
        /\ weatherAns[r1] = HttpResponse(200, WeatherBodyTemp(2870))
        /\ resp[r1].status = 200
        /\ resp[r1].body = resp[r2].body

\* The weather service answered 200.
WeatherOk(ans) == ans.kind = "response" /\ ans.status = 200

====
